---- MODULE Spec2Model ----
(***************************************************************************)
(* Model of scratch.linear_algebra.vector.Vector and of the decorator      *)
(* scratch.validation.vector.validate_vector.                              *)
(*                                                                         *)
(* Python objects live in a heap: a list object is an address into `heap`, *)
(* a Vector object is an index into `vecs` whose value is the address of   *)
(* the list its `data` field refers to.                                    *)
(*                                                                         *)
(* Floats are modelled by a reduced binary64: the finite representable     *)
(* values are the integers -MaxFloat..MaxFloat, a result of larger         *)
(* magnitude overflows to an infinity, a quotient or a root that is not    *)
(* representable is rounded toward zero, and NaN propagates, as IEEE 754   *)
(* does.  The sign of zero is not modelled (0.0 == -0.0 in Python and a    *)
(* division by either raises ZeroDivisionError).                           *)
(***************************************************************************)
EXTENDS Integers, Sequences, FiniteSets, TLC

VARIABLES heap, vecs, held, orig, last,
          sysModules, bound, stack, stdCache, attempts, importError

vectorVars == <<heap, vecs, held, orig, last>>
importVars == <<sysModules, bound, stack, stdCache, attempts, importError>>
vars == <<heap, vecs, held, orig, last,
          sysModules, bound, stack, stdCache, attempts, importError>>

(* ------------------------------ bounds --------------------------------- *)
MaxFloat == 1
MaxLen == 2
MaxVectors == 2
MaxAttempts == 2

(* ------------------------------ floats --------------------------------- *)
PosInf == MaxFloat + 1
NegInf == 0 - (MaxFloat + 1)
NaN == MaxFloat + 2
NotFloat == MaxFloat + 3

Finite == (0 - MaxFloat)..MaxFloat
Floats == Finite \cup {PosInf, NegInf, NaN}

IsFloat(x) == x # NotFloat
IsFinite(x) == x \in Finite

AbsInt(n) == IF n < 0 THEN 0 - n ELSE n
Sign(n) == IF n < 0 THEN 0 - 1 ELSE IF n > 0 THEN 1 ELSE 0

\* rounding of an exact finite result: overflow gives an infinity
Round(n) == IF n > MaxFloat THEN PosInf ELSE IF n < 0 - MaxFloat THEN NegInf ELSE n

FNeg(x) == IF x = NaN THEN NaN ELSE 0 - x

FAdd(x, y) ==
    IF x = NaN \/ y = NaN THEN NaN
    ELSE IF x \in {PosInf, NegInf}
         THEN (IF y \in {PosInf, NegInf} /\ y # x THEN NaN ELSE x)
    ELSE IF y \in {PosInf, NegInf} THEN y
    ELSE Round(x + y)

FSub(x, y) ==
    IF x = NaN \/ y = NaN THEN NaN
    ELSE IF x \in {PosInf, NegInf}
         THEN (IF y = x THEN NaN ELSE x)
    ELSE IF y \in {PosInf, NegInf} THEN 0 - y
    ELSE Round(x - y)

FMul(x, y) ==
    IF x = NaN \/ y = NaN THEN NaN
    ELSE IF x \in {PosInf, NegInf} \/ y \in {PosInf, NegInf}
         THEN (IF x = 0 \/ y = 0 THEN NaN
               ELSE IF Sign(x) * Sign(y) > 0 THEN PosInf ELSE NegInf)
    ELSE Round(x * y)

\* float.__truediv__ for a divisor that is not zero (zero raises, see DivRaises)
FDiv(x, y) ==
    IF x = NaN \/ y = NaN THEN NaN
    ELSE IF x \in {PosInf, NegInf}
         THEN (IF y \in {PosInf, NegInf} THEN NaN
               ELSE IF Sign(x) * Sign(y) > 0 THEN PosInf ELSE NegInf)
    ELSE IF y \in {PosInf, NegInf} THEN 0
    ELSE Sign(x) * Sign(y) * (AbsInt(x) \div AbsInt(y))

\* math.sqrt: the caller checks x >= 0 or NaN first (a negative argument raises)
FSqrt(x) ==
    IF x = NaN THEN NaN
    ELSE IF x = PosInf THEN PosInf
    ELSE CHOOSE r \in 0..MaxFloat :
            /\ r * r <= x
            /\ \A q \in 0..MaxFloat : q * q <= x => q <= r

\* the == of two Python floats
FEq(x, y) == x # NaN /\ y # NaN /\ x = y

(* ----------------------------- outcomes -------------------------------- *)
\* what a call produces: an exception name or "none", the contents of the list
\* handed to the Vector it returns, the float it returns, and the number of
\* times a function wrapped by validate_vector was entered
Ok(d, v, c) == [err |-> "none", data |-> d, val |-> v, calls |-> c]
Raise(e, c) == [err |-> e, data |-> <<>>, val |-> 0, calls |-> c]

Min(a, b) == IF a < b THEN a ELSE b

\* __post_init__ without the emptiness test
PostInit_AcceptsEmpty(data) ==
    IF \E i \in 1..Len(data) : ~IsFloat(data[i]) THEN "TypeError" ELSE "none"

\* Vector.__post_init__ applied to the list given to the constructor
PostInit(data) ==
    IF data = <<>> THEN "ValueError"
    ELSE IF \E i \in 1..Len(data) : ~IsFloat(data[i]) THEN "TypeError"
    ELSE "none"

\* Vector(list): the dataclass __init__ followed by __post_init__
NewVector(data, c) ==
    IF PostInit(data) = "none" THEN Ok(data, 0, c) ELSE Raise(PostInit(data), c)

(* ------------------------- Vector's methods ----------------------------- *)
\* an argument of a call: a Vector (with the contents of its data list) or a
\* plain list, which is not a Vector
VectorArg(d) == [isVector |-> TRUE, data |-> d]
ListArg(d) == [isVector |-> FALSE, data |-> d]

\* Vector.__len__
VLen(v) == Len(v.data)

\* a negation that loses the last element
Neg_DropsLast(v) == NewVector([i \in 1..(Len(v.data) - 1) |-> FNeg(v.data[i])], 0)

\* Vector.__neg__
Neg(v) == NewVector([i \in 1..Len(v.data) |-> FNeg(v.data[i])], 0)

\* an indexing that rejects every negative index
GetItem_NoWrap(v, index) ==
    IF index < 0 \/ index >= Len(v.data) THEN Raise("IndexError", 0)
    ELSE Ok(<<>>, v.data[index + 1], 0)

\* Vector.__getitem__: list indexing, a negative index counts from the end
GetItem(v, index) ==
    LET j == IF index < 0 THEN index + Len(v.data) ELSE index
    IN  IF j < 0 \/ j >= Len(v.data) THEN Raise("IndexError", 0)
        ELSE Ok(<<>>, v.data[j + 1], 0)

\* a type test that lets every operand through
IsVector_Always(x) == TRUE

\* isinstance(vector_2, Vector)
IsVector(x) == x.isVector

\* a length test that lets every pair through
SameLength_Always(vector_1, vector_2) == TRUE

\* len(vector_1) == len(vector_2), through Vector.__len__
SameLength(vector_1, vector_2) == VLen(vector_1) = VLen(vector_2)

\* the body of Vector.__add__ (zip stops at the shorter list)
AddBody(self, other) ==
    NewVector([i \in 1..Min(Len(self.data), Len(other.data)) |->
                  FAdd(self.data[i], other.data[i])], 0)

\* the body of Vector.__sub__
SubBody(self, other) ==
    NewVector([i \in 1..Min(Len(self.data), Len(other.data)) |->
                  FSub(self.data[i], other.data[i])], 0)

\* sum(...) of the first n products, left to right from the int 0
RECURSIVE SumProducts(_, _, _)
SumProducts(d1, d2, n) ==
    IF n = 0 THEN 0
    ELSE FAdd(SumProducts(d1, d2, n - 1), FMul(d1[n], d2[n]))

\* the body of Vector.__matmul__
MatMulBody(self, other) ==
    Ok(<<>>, SumProducts(self.data, other.data,
                         Min(Len(self.data), Len(other.data))), 0)

\* the function that validate_vector wraps, by the name of the method
Body(function, self, other) ==
    CASE function = "add" -> AddBody(self, other)
      [] function = "sub" -> SubBody(self, other)
      [] function = "matmul" -> MatMulBody(self, other)

\* validate_vector.wrapper around function
ValidateVector(function, vector_1, vector_2) ==
    IF ~IsVector(vector_2) THEN Raise("TypeError", 0)
    ELSE IF ~SameLength(vector_1, vector_2) THEN Raise("ValueError", 0)
    ELSE LET r == Body(function, vector_1, vector_2)
         IN  [r EXCEPT !.calls = @ + 1]

\* the decorated methods
Add(self, other) == ValidateVector("add", self, other)
Sub(self, other) == ValidateVector("sub", self, other)
MatMul(self, other) == ValidateVector("matmul", self, other)

\* Vector.__mul__
Mul(self, scalar) ==
    NewVector([i \in 1..Len(self.data) |-> FMul(self.data[i], scalar)], 0)

\* Vector.__rmul__
RMul(self, scalar) == Mul(self, scalar)

\* a / scalar inside a list comprehension: a zero divisor raises at the first
\* element, so only when there is an element
DivRaises(data, scalar) == data # <<>> /\ scalar = 0

\* Vector.__truediv__
TrueDiv(self, scalar) ==
    IF DivRaises(self.data, scalar) THEN Raise("ZeroDivisionError", 0)
    ELSE NewVector([i \in 1..Len(self.data) |-> FDiv(self.data[i], scalar)], 0)

\* Vector.__abs__
Abs(self) ==
    LET r == MatMul(self, self)
    IN  IF r.err # "none" THEN r
        ELSE IF r.val # NaN /\ r.val < 0 THEN Raise("ValueError", r.calls)
        ELSE Ok(<<>>, FSqrt(r.val), r.calls)

\* Vector.normalize: abs(self) is evaluated once per element
Normalize(self) ==
    IF self.data = <<>> THEN NewVector(<<>>, 0)
    ELSE LET m == Abs(self)
         IN  IF m.err # "none" THEN m
             ELSE IF DivRaises(self.data, m.val)
                  THEN Raise("ZeroDivisionError", m.calls)
             ELSE NewVector([i \in 1..Len(self.data) |->
                                FDiv(self.data[i], m.val)],
                            m.calls * Len(self.data))

\* a distance that forgets the other operand
Distance_FromOrigin(self, other) == Abs(self)

\* Vector.distance
Distance(self, other) ==
    LET s == Sub(self, other)
    IN  IF s.err # "none" THEN s
        ELSE LET m == Abs(VectorArg(s.data))
             IN  [m EXCEPT !.calls = @ + s.calls]

(* ------------------------- the client program --------------------------- *)
\* the list displays a caller passes to Vector(...): for every length up to
\* MaxLen a list of zeros and a list 1.0, 0.0, 1.0, ...; an infinite element;
\* an element that is not a float; the empty list
Zeros(n) == [i \in 1..n |-> 0]
Ramp(n) == [i \in 1..n |-> i % 2]
InputLists == {Zeros(n) : n \in 0..MaxLen} \cup {Ramp(n) : n \in 1..MaxLen}
                  \cup {<<PosInf>>, <<NotFloat>>}
\* the scalars a caller multiplies and divides by
Scalars == {0, 1}

Indexes == (0 - (MaxLen + 1))..(MaxLen + 1)

VectorIds == 1..Len(vecs)
\* the Vector v as an argument: its data field dereferenced
Self(v) == VectorArg(heap[vecs[v]])

VectorOps == {"construct", "neg", "add", "sub", "mul", "rmul", "truediv", "normalize"}

\* a result written into the list allocated last instead of a new one
FreshList_Reuse(h) == IF h = <<>> THEN 1 ELSE Len(h)

\* the address of the list object a list display or comprehension creates
FreshList(h) == Len(h) + 1

\* the list object at address a gets the contents d
StoreList(h, a, d) == IF a > Len(h) THEN Append(h, d) ELSE [h EXCEPT ![a] = d]

Call(op, a, bv, b, arg, input) ==
    [op |-> op, a |-> a, bVec |-> bv, b |-> b, arg |-> arg, input |-> input]

\* what the client last did: the call, the exception it raised or "none", the
\* Vector it kept (0 when none), the contents of the returned Vector, the returned
\* float, and the number of entries into a function wrapped by validate_vector
Done(call, err, res, data, val, calls) ==
    [call |-> call, err |-> err, res |-> res, data |-> data, val |-> val,
     calls |-> calls]

\* a method call returns.  A Vector result is a new Vector object around the new
\* list; the client keeps it while it holds fewer than MaxVectors Vectors and
\* drops it otherwise.  A float result or an exception leaves the heap alone.
Return(call, out) ==
    IF out.err = "none" /\ call.op \in VectorOps /\ Len(vecs) < MaxVectors
    THEN /\ heap' = StoreList(heap, FreshList(heap), out.data)
         /\ vecs' = Append(vecs, FreshList(heap))
         /\ orig' = Append(orig, out.data)
         /\ held' = held
         /\ last' = Done(call, "none", Len(vecs) + 1, out.data, 0, out.calls)
    ELSE /\ UNCHANGED <<heap, vecs, orig, held>>
         /\ last' = Done(call, out.err, 0, out.data, out.val, out.calls)

\* no call is pending
NoCall == Done(Call("none", 0, FALSE, 0, 0, <<>>), "none", 0, <<>>, 0, 0)

\* the client is between two statements
Ready == last = NoCall

\* d = [...]; Vector(d): the dataclass stores the reference it is given, so the
\* Vector's data is the caller's list object
Construct(d) ==
    /\ Ready
    /\ LET out == NewVector(d, 0)
           call == Call("construct", 0, FALSE, 0, 0, d)
       IN  IF out.err = "none" /\ Len(vecs) < MaxVectors
           THEN /\ heap' = StoreList(heap, FreshList(heap), d)
                /\ vecs' = Append(vecs, FreshList(heap))
                /\ orig' = Append(orig, d)
                /\ held' = held \cup {FreshList(heap)}
                /\ last' = Done(call, "none", Len(vecs) + 1, out.data, 0, 0)
           ELSE Return(call, out)
    /\ UNCHANGED importVars

\* del d[0] on a list d the caller passed to Vector(...)
CallerDel(l) ==
    /\ Ready
    /\ heap[l] # <<>>
    /\ heap' = [heap EXCEPT ![l] = Tail(@)]
    /\ last' = Done(Call("del", 0, FALSE, l, 0, <<>>), "none", 0, <<>>, 0, 0)
    /\ UNCHANGED <<vecs, orig, held>>
    /\ UNCHANGED importVars

DoNeg(v) ==
    /\ Ready
    /\ Return(Call("neg", v, FALSE, 0, 0, <<>>), Neg(Self(v)))
    /\ UNCHANGED importVars

DoGetItem(v, i) ==
    /\ Ready
    /\ Return(Call("getitem", v, FALSE, 0, i, <<>>), GetItem(Self(v), i))
    /\ UNCHANGED importVars

\* the second operand of a binary operator: a Vector, or a list the caller holds
Other(bv, b) == IF bv THEN Self(b) ELSE ListArg(heap[b])
Others(bv) == IF bv THEN VectorIds ELSE held

DoAdd(v, bv, b) ==
    /\ Ready
    /\ Return(Call("add", v, bv, b, 0, <<>>), Add(Self(v), Other(bv, b)))
    /\ UNCHANGED importVars

DoSub(v, bv, b) ==
    /\ Ready
    /\ Return(Call("sub", v, bv, b, 0, <<>>), Sub(Self(v), Other(bv, b)))
    /\ UNCHANGED importVars

DoMatMul(v, bv, b) ==
    /\ Ready
    /\ Return(Call("matmul", v, bv, b, 0, <<>>), MatMul(Self(v), Other(bv, b)))
    /\ UNCHANGED importVars

DoDistance(v, bv, b) ==
    /\ Ready
    /\ Return(Call("distance", v, bv, b, 0, <<>>), Distance(Self(v), Other(bv, b)))
    /\ UNCHANGED importVars

DoMul(v, s) ==
    /\ Ready
    /\ Return(Call("mul", v, FALSE, 0, s, <<>>), Mul(Self(v), s))
    /\ UNCHANGED importVars

DoRMul(v, s) ==
    /\ Ready
    /\ Return(Call("rmul", v, FALSE, 0, s, <<>>), RMul(Self(v), s))
    /\ UNCHANGED importVars

DoTrueDiv(v, s) ==
    /\ Ready
    /\ Return(Call("truediv", v, FALSE, 0, s, <<>>), TrueDiv(Self(v), s))
    /\ UNCHANGED importVars

DoAbs(v) ==
    /\ Ready
    /\ Return(Call("abs", v, FALSE, 0, 0, <<>>), Abs(Self(v)))
    /\ UNCHANGED importVars

DoNormalize(v) ==
    /\ Ready
    /\ Return(Call("normalize", v, FALSE, 0, 0, <<>>), Normalize(Self(v)))
    /\ UNCHANGED importVars

(* --------------------------- module loading ----------------------------- *)
LinAlg == "scratch.linear_algebra.vector"
Validation == "scratch.validation.vector"
Modules == {LinAlg, Validation}
StdModules == {"__future__", "collections.abc", "dataclasses", "math", "typing"}

StdImport(m, n) == [kind |-> "std", target |-> m, name |-> n]
FromImport(m, n) == [kind |-> "from", target |-> m, name |-> n]
Define(n) == [kind |-> "def", target |-> "", name |-> n]

\* the top-level statements of the two modules, in order
Program(m) ==
    IF m = LinAlg
    THEN << StdImport("__future__", "annotations"),
            StdImport("collections.abc", "Sequence"),
            StdImport("dataclasses", "dataclass"),
            StdImport("math", "sqrt"),
            FromImport(Validation, "validate_vector"),
            Define("Vector") >>
    ELSE << StdImport("typing", "Callable"),
            FromImport(LinAlg, "Vector"),
            Define("validate_vector") >>

Top == stack[Len(stack)]
Pop(st) == SubSeq(st, 1, Len(st) - 1)
Advance(st) == [st EXCEPT ![Len(st)].pc = @ + 1]

\* the program executes `import m`
StartImport(m) ==
    /\ stack = <<>>
    /\ attempts < MaxAttempts
    /\ sysModules[m] = "absent"
    /\ attempts' = attempts + 1
    /\ importError' = "none"
    /\ sysModules' = [sysModules EXCEPT ![m] = "partial"]
    /\ stack' = <<[mod |-> m, pc |-> 1]>>
    /\ UNCHANGED <<bound, stdCache>>
    /\ UNCHANGED vectorVars

\* the module on top of the import stack executes its next top-level statement,
\* or finishes when it has none left
ExecStatement ==
    /\ stack # <<>>
    /\ importError = "none"
    /\ LET m == Top.mod
           prog == Program(m)
       IN  IF Top.pc > Len(prog)
           THEN /\ sysModules' = [sysModules EXCEPT ![m] = "loaded"]
                /\ stack' = Pop(stack)
                /\ UNCHANGED <<bound, stdCache, importError>>
           ELSE LET st == prog[Top.pc]
                IN  CASE st.kind = "std" ->
                           /\ stdCache' = stdCache \cup {st.target}
                           /\ bound' = bound \cup {<<m, st.name>>}
                           /\ stack' = Advance(stack)
                           /\ UNCHANGED <<sysModules, importError>>
                      [] st.kind = "def" ->
                           /\ bound' = bound \cup {<<m, st.name>>}
                           /\ stack' = Advance(stack)
                           /\ UNCHANGED <<sysModules, stdCache, importError>>
                      [] st.kind = "from" /\ sysModules[st.target] = "absent" ->
                           /\ sysModules' = [sysModules EXCEPT ![st.target] = "partial"]
                           /\ stack' = Append(stack, [mod |-> st.target, pc |-> 1])
                           /\ UNCHANGED <<bound, stdCache, importError>>
                      [] st.kind = "from" /\ sysModules[st.target] # "absent" ->
                           IF <<st.target, st.name>> \in bound
                           THEN /\ bound' = bound \cup {<<m, st.name>>}
                                /\ stack' = Advance(stack)
                                /\ UNCHANGED <<sysModules, stdCache, importError>>
                           ELSE /\ importError' = "ImportError"
                                /\ UNCHANGED <<sysModules, bound, stdCache, stack>>
    /\ UNCHANGED attempts
    /\ UNCHANGED vectorVars

\* an ImportError leaves the module on top of the stack: the module is removed
\* from sys.modules and the exception reaches the import statement below it
Unwind ==
    /\ stack # <<>>
    /\ importError = "ImportError"
    /\ sysModules' = [sysModules EXCEPT ![Top.mod] = "absent"]
    /\ bound' = {p \in bound : p[1] # Top.mod}
    /\ stack' = Pop(stack)
    /\ UNCHANGED <<stdCache, attempts, importError>>
    /\ UNCHANGED vectorVars

ImportInit ==
    /\ sysModules = [m \in Modules |-> "absent"]
    /\ bound = {}
    /\ stack = <<>>
    /\ stdCache = {}
    /\ attempts = 0
    /\ importError = "none"

VectorInit ==
    /\ heap = <<>>
    /\ vecs = <<>>
    /\ held = {}
    /\ orig = <<>>
    /\ last = NoCall

\* the interpreter starts with any of the standard modules already loaded
LoaderInit ==
    /\ VectorInit
    /\ sysModules = [m \in Modules |-> "absent"]
    /\ bound = {}
    /\ stack = <<>>
    /\ stdCache \in SUBSET StdModules
    /\ attempts = 0
    /\ importError = "none"

LoaderNext ==
    \/ \E m \in Modules : StartImport(m)
    \/ ExecStatement
    \/ Unwind

\* a program that imports the two modules
SpecImport == LoaderInit /\ [][LoaderNext]_vars

Init ==
    /\ VectorInit
    /\ ImportInit

\* the client's statement ends: the returned value or the exception of the call
\* has been used, and the next statement may start
Consume ==
    /\ last # NoCall
    /\ last' = NoCall
    /\ UNCHANGED <<heap, vecs, held, orig>>
    /\ UNCHANGED importVars

\* the calls of the Vector API
ApiCalls ==
    \/ \E d \in InputLists : Construct(d)
    \/ \E v \in VectorIds : DoNeg(v)
    \/ \E v \in VectorIds, i \in Indexes : DoGetItem(v, i)
    \/ \E v \in VectorIds, bv \in BOOLEAN : \E b \in Others(bv) : DoAdd(v, bv, b)
    \/ \E v \in VectorIds, bv \in BOOLEAN : \E b \in Others(bv) : DoSub(v, bv, b)
    \/ \E v \in VectorIds, bv \in BOOLEAN : \E b \in Others(bv) : DoMatMul(v, bv, b)
    \/ \E v \in VectorIds, bv \in BOOLEAN : \E b \in Others(bv) : DoDistance(v, bv, b)
    \/ \E v \in VectorIds, s \in Scalars : DoMul(v, s)
    \/ \E v \in VectorIds, s \in Scalars : DoRMul(v, s)
    \/ \E v \in VectorIds, s \in Scalars : DoTrueDiv(v, s)
    \/ \E v \in VectorIds : DoAbs(v)
    \/ \E v \in VectorIds : DoNormalize(v)

\* one statement at a time: a call, then the end of the statement
ApiNext ==
    \/ ApiCalls
    \/ Consume

Next ==
    \/ ApiCalls
    \/ \E l \in held : CallerDel(l)
    \/ Consume

\* a client that uses the Vector API and mutates the lists it still holds
Spec == Init /\ [][Next]_vars

\* a client that only constructs Vectors and calls their methods
SpecOps == Init /\ [][ApiNext]_vars

TypeOK ==
    /\ Len(vecs) <= MaxVectors
    /\ \A v \in VectorIds : vecs[v] \in 1..Len(heap)

(* ------------------------------ properties ------------------------------ *)
\* the operands of the call that `last` (primed: the step's call) describes
BinaryOps == {"add", "sub", "matmul", "distance"}
ResultOps == {"neg", "mul", "rmul", "truediv", "normalize", "add", "sub"}
MethodOps == ResultOps \cup {"matmul", "abs", "distance"}
AllFinite(d) == \A i \in 1..Len(d) : IsFinite(d[i])

\* C1: a binary operation (add, subtract, dot, distance) on two Vectors of
\* different lengths raises ValueError and never enters the wrapped function:
\* no result is computed, no Vector is created.
C1_MismatchRejected ==
    [][ (/\ last'.call.op \in BinaryOps
         /\ last'.call.bVec
         /\ VLen(Self(last'.call.a)) # VLen(Self(last'.call.b)))
        => (/\ last'.err = "ValueError"
            /\ last'.calls = 0
            /\ last'.res = 0
            /\ last'.data = <<>>
            /\ vecs' = vecs /\ heap' = heap) ]_vars

C1_Witness ==
    /\ last.call.op = "distance"
    /\ last.call.bVec
    /\ VLen(Self(last.call.a)) # VLen(Self(last.call.b))
    /\ VLen(Self(last.call.a)) >= 1 /\ VLen(Self(last.call.b)) >= 1
    /\ last.err = "ValueError"

\* C2: Vector(data) with an empty list raises ValueError and creates no Vector;
\* with a non-empty list of floats it succeeds and the new Vector has the
\* input's length and the input's elements in the input's order.
C2_Construction ==
    [][ last'.call.op = "construct" =>
        LET d == last'.call.input
        IN  /\ d = <<>> =>
                 /\ last'.err = "ValueError"
                 /\ last'.res = 0
                 /\ vecs' = vecs /\ heap' = heap
            /\ (d # <<>> /\ \A i \in 1..Len(d) : IsFloat(d[i])) =>
                 /\ last'.err = "none"
                 /\ last'.data = d
                 /\ Len(vecs) < MaxVectors =>
                      /\ last'.res = Len(vecs) + 1
                      /\ Len(vecs') = Len(vecs) + 1
                      /\ VLen(VectorArg(heap'[vecs'[last'.res]])) = Len(d)
                      /\ \A i \in 1..Len(d) :
                             GetItem(VectorArg(heap'[vecs'[last'.res]]), i - 1).val = d[i] ]_vars

C2_Witness ==
    /\ last.call.op = "construct"
    /\ Len(last.call.input) >= 2
    /\ last.call.input[1] # last.call.input[2]
    /\ last.err = "none"
    /\ last.res # 0
    /\ heap[vecs[last.res]] = last.call.input

\* C3 as stated: v[i] is the original input element at i when 0 <= i < len(v)
\* and raises IndexError for every other index, every negative index included.
C3_OutOfRangeOutsideZeroToLen ==
    last.call.op = "getitem" =>
        LET n == VLen(Self(last.call.a))
            i == last.call.arg
        IN  IF 0 <= i /\ i < n
            THEN last.err = "none" /\ last.val = orig[last.call.a][i + 1]
            ELSE last.err = "IndexError"

\* C3 amended: v[i] is the element now at position i of v's data when
\* 0 <= i < len(v), the element at position len(v) + i when -len(v) <= i < 0,
\* and raises IndexError for every i >= len(v) and every i < -len(v).
C3_Indexing ==
    last.call.op = "getitem" =>
        LET d == heap[vecs[last.call.a]]
            n == Len(d)
            i == last.call.arg
        IN  /\ (0 <= i /\ i < n) => (last.err = "none" /\ last.val = d[i + 1])
            /\ (0 - n <= i /\ i < 0) => (last.err = "none" /\ last.val = d[n + i + 1])
            /\ (i >= n \/ i < 0 - n) => last.err = "IndexError"

C3_Witness ==
    /\ last.call.op = "getitem"
    /\ last.call.arg < 0
    /\ VLen(Self(last.call.a)) >= 2
    /\ last.err = "none"
    /\ last.val = heap[vecs[last.call.a]][VLen(Self(last.call.a)) + last.call.arg + 1]
    /\ last.val # heap[vecs[last.call.a]][1]

\* C4: v / 0 and normalize(v) for a v of magnitude 0 raise ZeroDivisionError
\* and return no Vector; for a nonzero scalar or magnitude they return a
\* Vector of v's length.
C4_ZeroDivisorPolicy ==
    /\ last.call.op = "truediv" =>
          IF last.call.arg = 0
          THEN last.err = "ZeroDivisionError" /\ last.res = 0
          ELSE last.err = "none" /\ Len(last.data) = VLen(Self(last.call.a))
    /\ last.call.op = "normalize" =>
          IF Abs(Self(last.call.a)).val = 0
          THEN last.err = "ZeroDivisionError" /\ last.res = 0
          ELSE last.err = "none" /\ Len(last.data) = VLen(Self(last.call.a))

\* C5: every Vector keeps the length and the elements it was constructed with.
C5_Immutable ==
    \A v \in VectorIds : heap[vecs[v]] = orig[v]

\* C6: a call of negate, scale, divide, normalize, add, subtract, dot,
\* magnitude or distance leaves every existing list and every existing
\* Vector's data reference unchanged; a Vector it returns refers to a list that
\* no Vector referred to and that did not exist before the call; a call that
\* raises adds no Vector and changes nothing.
C6_Frame ==
    [][ last'.call.op \in MethodOps =>
        /\ \A l \in 1..Len(heap) : heap'[l] = heap[l]
        /\ \A v \in VectorIds : vecs'[v] = vecs[v]
        /\ held' = held
        /\ last'.res # 0 =>
              /\ last'.res = Len(vecs) + 1
              /\ vecs'[last'.res] \notin {vecs[v] : v \in VectorIds}
              /\ vecs'[last'.res] \notin 1..Len(heap)
        /\ last'.err # "none" =>
              /\ last'.res = 0
              /\ vecs' = vecs /\ heap' = heap ]_vars

C6_Witness ==
    /\ last.call.op \in {"add", "sub"}
    /\ last.res # 0
    /\ vecs[last.res] # vecs[last.call.a]
    /\ heap[vecs[last.call.a]] = orig[last.call.a]
    /\ heap[vecs[last.res]] # heap[vecs[last.call.a]]

\* C7: for add, subtract and dot, a second operand that is not a Vector raises
\* TypeError whatever its length and the wrapped function is not entered; when
\* it is a Vector of the first operand's length, the wrapped function is entered
\* exactly once on the same two operands and its outcome is the call's outcome.
C7_ValidatorOrder ==
    [][ last'.call.op \in {"add", "sub", "matmul"} =>
        LET self == Self(last'.call.a)
            other == Other(last'.call.bVec, last'.call.b)
        IN  /\ ~last'.call.bVec =>
                 /\ last'.err = "TypeError"
                 /\ last'.calls = 0
                 /\ last'.res = 0
            /\ (last'.call.bVec /\ VLen(self) = VLen(other)) =>
                 LET r == Body(last'.call.op, self, other)
                 IN  /\ last'.calls = 1
                     /\ last'.err = r.err
                     /\ last'.data = r.data
                     /\ last'.val = r.val ]_vars

C7_Witness ==
    /\ last.call.op \in {"add", "sub", "matmul"}
    /\ ~last.call.bVec
    /\ Len(heap[last.call.b]) # VLen(Self(last.call.a))
    /\ Len(heap[last.call.b]) >= 1 /\ VLen(Self(last.call.a)) >= 1
    /\ last.err = "TypeError"

\* C8: when the client only constructs Vectors and calls their methods, every
\* Vector has length at least 1, and a Vector returned by negate, scale, divide,
\* normalize, add or subtract has the length of the first operand.
C8_Length ==
    /\ \A v \in VectorIds : VLen(Self(v)) >= 1
    /\ (last.call.op \in ResultOps /\ last.err = "none") =>
          /\ Len(last.data) = VLen(Self(last.call.a))
          /\ last.res # 0 => VLen(Self(last.res)) = VLen(Self(last.call.a))

C8_Witness ==
    /\ last.call.op \in ResultOps
    /\ last.err = "none"
    /\ last.res # 0
    /\ VLen(Self(last.res)) >= 2

\* C9 as stated: for all Vectors a, b of equal length, distance(a, b) ==
\* distance(b, a), and distance(a, a) == 0.
C9_DistanceSymmetricAll ==
    (/\ last.call.op = "distance"
     /\ last.call.bVec
     /\ VLen(Self(last.call.a)) = VLen(Self(last.call.b)))
    => LET back == Distance(Self(last.call.b), Self(last.call.a))
       IN  /\ last.err = "none"
           /\ back.err = "none"
           /\ FEq(last.val, back.val)
           /\ Self(last.call.a) = Self(last.call.b) => FEq(last.val, 0)

\* C9 amended: for all Vectors a, b of equal length at least 1 whose elements
\* are all finite, distance(a, b) == distance(b, a), and distance(a, a) == 0.
C9_DistanceSymmetricFinite ==
    (/\ last.call.op = "distance"
     /\ last.call.bVec
     /\ VLen(Self(last.call.a)) = VLen(Self(last.call.b))
     /\ VLen(Self(last.call.a)) >= 1
     /\ AllFinite(Self(last.call.a).data)
     /\ AllFinite(Self(last.call.b).data))
    => LET back == Distance(Self(last.call.b), Self(last.call.a))
       IN  /\ last.err = "none"
           /\ back.err = "none"
           /\ FEq(last.val, back.val)
           /\ Self(last.call.a) = Self(last.call.b) => FEq(last.val, 0)

C9_Witness ==
    /\ last.call.op = "distance"
    /\ last.call.bVec
    /\ last.call.a # last.call.b
    /\ VLen(Self(last.call.a)) = VLen(Self(last.call.b))
    /\ AllFinite(Self(last.call.a).data)
    /\ AllFinite(Self(last.call.b).data)
    /\ last.err = "none"
    /\ last.val # 0
    /\ FEq(last.val, Distance(Self(last.call.b), Self(last.call.a)).val)

\* C10: whichever module is imported first, no from-import asks a module for a
\* name the module has not bound yet, and when the import statement has
\* finished both Vector and validate_vector are bound.
C10_ModuleInitCompletes ==
    /\ importError = "none"
    /\ (attempts > 0 /\ stack = <<>>) =>
          {<<LinAlg, "Vector">>, <<Validation, "validate_vector">>} \subseteq bound

====
